---------------------------- MODULE Spec2Model ----------------------------
(***************************************************************************)
(* Model of AgentCoordinator (agents/coordinator.ts): the wave scheduler   *)
(* executeTaskDAG, the per-task async callback it maps over the ready      *)
(* tasks, the failure propagator markDependentTasksAsFailed and the three  *)
(* Lark notifications.  JavaScript runs the callbacks of one wave on one   *)
(* thread; they interleave only at their awaits, so every action below is  *)
(* the code that runs between two awaits of one callback.                  *)
(***************************************************************************)
EXTENDS Integers, Sequences, FiniteSets, TLC

VARIABLES
    tasks,          \* the TaskStep[] argument (order kept)
    results,        \* the `results` Map of executeTaskDAG
    larkClient,     \* a Lark client was passed to executeMiyabiTask
    larkConfigured, \* this.larkClient && this.chatId
    execOk,         \* outcome of the executor call of each task (input)
    main,           \* position of executeTaskDAG itself
    pc,             \* position of the async callback of each task
    round,          \* number of waves dispatched so far
    waveOf,         \* wave in which each task was dispatched (0: never)
    invoked,        \* number of executeTask calls made for each task
    execInput,      \* dependencyResults handed to the last executor call
    caller,         \* position of executeMiyabiTask, the caller of the run
    finalReport,    \* the 100% progress report has been sent
    notified,       \* notify calls made so far for each task
    startStatus     \* status each task had when executeTaskDAG was called

vars == <<tasks, results, larkConfigured, execOk, main, pc, round, waveOf,
          invoked, execInput, caller, finalReport, notified, startStatus,
          larkClient>>

callerVars == <<caller, finalReport>>

\* the state of the coordinator and the inputs of the run
runVars == <<tasks, results, larkClient, larkConfigured, execOk, main, pc,
             round, waveOf, invoked, execInput, notified, startStatus>>

(***************************************************************************)
(* Bounds and input domains                                                *)
(***************************************************************************)
MaxDeps == 2

PoolIds == <<"a", "b", "c">>

IdOrder == <<"a", "b", "c", "d", "missing">>

AgentTypeOf ==
    [x \in {"a", "b", "c", "d"} |->
        CASE x = "a" -> "CodeGenAgent"
          [] x = "b" -> "TestAgent"
          [] x = "c" -> "ReviewAgent"
          [] OTHER   -> "general-purpose"]

Range(s) == {s[i] : i \in DOMAIN s}

SortedSeq(S) == SelectSeq(IdOrder, LAMBDA x : x \in S)

NoValue == "undefined"

NoError == <<>>

ExecutorError == <<"executor error">>

NotifierError == <<"Failed to send message">>

DependencyError(failedTaskId) == <<"Dependency", failedTaskId, "failed">>

NewTask(id, deps) ==
    [id |-> id, name |-> <<"name", id>>, description |-> <<"description", id>>,
     agentType |-> AgentTypeOf[id], dependencies |-> deps,
     status |-> "pending", result |-> NoValue, error |-> NoError]

DepChoices ==
    {SortedSeq(S) : S \in {D \in SUBSET (Range(PoolIds) \cup {"missing"}) :
                              Cardinality(D) <= MaxDeps}}

PoolGraphs ==
    {[i \in 1..Len(PoolIds) |-> NewTask(PoolIds[i], d[i])] :
        d \in [1..Len(PoolIds) -> DepChoices]}

Diamond ==
    <<NewTask("a", <<>>), NewTask("b", <<"a">>), NewTask("c", <<"a">>),
      NewTask("d", <<"b", "c">>)>>

DiamondReversed ==
    <<NewTask("d", <<"c", "b">>), NewTask("c", <<"a">>), NewTask("b", <<"a">>),
      NewTask("a", <<>>)>>

Chain ==
    <<NewTask("a", <<>>), NewTask("b", <<"a">>), NewTask("c", <<"b">>),
      NewTask("d", <<"c">>)>>

Single == <<NewTask("a", <<>>)>>

NamedGraphs == {Diamond, DiamondReversed, Chain, Single}

InputGraphs == PoolGraphs \cup NamedGraphs

(***************************************************************************)
(* Pure helpers of the coordinator                                         *)
(***************************************************************************)
Idx == DOMAIN tasks

\* new Map(tasks.map((t) => [t.id, t])): the last task with an id wins;
\* 0 stands for `undefined`.
TaskMapGet(ts, id) ==
    LET hits == {i \in DOMAIN ts : ts[i].id = id}
    IN  IF hits = {} THEN 0 ELSE CHOOSE i \in hits : \A j \in hits : j <= i

\* variant: a dependency id that is not in the collection counts as satisfied
DepCompletedOrMissing(ts, depId) ==
    LET k == TaskMapGet(ts, depId)
    IN  k = 0 \/ ts[k].status = "completed"

DepCompleted(ts, depId) ==
    LET k == TaskMapGet(ts, depId)
    IN  k # 0 /\ ts[k].status = "completed"

\* variant: the readiness test forgets the dependency check
IsReadyIgnoringDeps(ts, i) == ts[i].status = "pending"

IsReady(ts, i) ==
    /\ ts[i].status = "pending"
    /\ \A n \in DOMAIN ts[i].dependencies : DepCompleted(ts, ts[i].dependencies[n])

\* variant: only the first ready task of the collection is taken per round
ReadyTasksFirstOnly(ts) ==
    LET all == {i \in DOMAIN ts : IsReady(ts, i)}
    IN  {i \in all : \A j \in all : i <= j}

ReadyTasks(ts) == {i \in DOMAIN ts : IsReady(ts, i)}

SomeActive(ts) == \E i \in DOMAIN ts : ts[i].status \in {"pending", "running"}

\* variant: the loop also waits when only pending tasks are left
SomeRunningOrPending(ts) ==
    \E i \in DOMAIN ts : ts[i].status \in {"running", "pending"}

SomeRunning(ts) == \E i \in DOMAIN ts : ts[i].status = "running"

\* variant: only the direct dependents are marked, without recursion
RECURSIVE MarkFromDirectOnly(_, _, _)
MarkFromDirectOnly(failedTaskId, ts, i) ==
    IF i > Len(ts) THEN ts
    ELSE IF /\ failedTaskId \in Range(ts[i].dependencies)
            /\ ts[i].status = "pending"
         THEN MarkFromDirectOnly(failedTaskId,
                  [ts EXCEPT ![i].status = "failed",
                             ![i].error = DependencyError(failedTaskId)],
                  i + 1)
         ELSE MarkFromDirectOnly(failedTaskId, ts, i + 1)

\* variant: the error names the marked task itself instead of the dependency
RECURSIVE MarkFromNamesSelf(_, _, _)
MarkFromNamesSelf(failedTaskId, ts, i) ==
    IF i > Len(ts) THEN ts
    ELSE IF /\ failedTaskId \in Range(ts[i].dependencies)
            /\ ts[i].status = "pending"
         THEN LET marked == [ts EXCEPT ![i].status = "failed",
                                       ![i].error = DependencyError(ts[i].id)]
                  deeper == MarkFromNamesSelf(ts[i].id, marked, 1)
              IN  MarkFromNamesSelf(failedTaskId, deeper, i + 1)
         ELSE MarkFromNamesSelf(failedTaskId, ts, i + 1)

\* variant: a dependent that is already failed gets its error overwritten
RECURSIVE MarkFromOverwrites(_, _, _)
MarkFromOverwrites(failedTaskId, ts, i) ==
    IF i > Len(ts) THEN ts
    ELSE IF failedTaskId \notin Range(ts[i].dependencies)
         THEN MarkFromOverwrites(failedTaskId, ts, i + 1)
    ELSE IF ts[i].status = "pending"
         THEN LET marked == [ts EXCEPT ![i].status = "failed",
                                       ![i].error = DependencyError(failedTaskId)]
                  deeper == MarkFromOverwrites(ts[i].id, marked, 1)
              IN  MarkFromOverwrites(failedTaskId, deeper, i + 1)
    ELSE IF ts[i].status = "failed"
         THEN MarkFromOverwrites(failedTaskId,
                  [ts EXCEPT ![i].error = DependencyError(failedTaskId)], i + 1)
         ELSE MarkFromOverwrites(failedTaskId, ts, i + 1)

\* variant: every pending task is marked, dependent or not
MarkFromMarksAll(failedTaskId, ts, i) ==
    [k \in DOMAIN ts |->
        IF ts[k].status = "pending"
        THEN [ts[k] EXCEPT !.status = "failed",
                           !.error = DependencyError(failedTaskId)]
        ELSE ts[k]]

\* markDependentTasksAsFailed from the i-th task of the collection on
RECURSIVE MarkFrom(_, _, _)
MarkFrom(failedTaskId, ts, i) ==
    IF i > Len(ts) THEN ts
    ELSE IF /\ failedTaskId \in Range(ts[i].dependencies)
            /\ ts[i].status = "pending"
         THEN LET marked == [ts EXCEPT ![i].status = "failed",
                                       ![i].error = DependencyError(failedTaskId)]
                  deeper == MarkFrom(ts[i].id, marked, 1)
              IN  MarkFrom(failedTaskId, deeper, i + 1)
         ELSE MarkFrom(failedTaskId, ts, i + 1)

markDependentTasksAsFailed(failedTaskId, ts) == MarkFrom(failedTaskId, ts, 1)

\* variant: a dependent that is already failed is marked once more
RECURSIVE MarkTraceRemarks(_, _, _, _)
MarkTraceRemarks(failedTaskId, ts, i, marked) ==
    IF i > Len(ts) THEN [ts |-> ts, marked |-> marked]
    ELSE IF failedTaskId \notin Range(ts[i].dependencies)
         THEN MarkTraceRemarks(failedTaskId, ts, i + 1, marked)
    ELSE IF ts[i].status = "pending"
         THEN LET m == [ts EXCEPT ![i].status = "failed",
                                  ![i].error = DependencyError(failedTaskId)]
                  deeper == MarkTraceRemarks(ts[i].id, m, 1,
                                             Append(marked, ts[i].id))
              IN  MarkTraceRemarks(failedTaskId, deeper.ts, i + 1,
                                   deeper.marked)
    ELSE IF ts[i].status = "failed"
         THEN MarkTraceRemarks(failedTaskId, ts, i + 1,
                               Append(marked, ts[i].id))
         ELSE MarkTraceRemarks(failedTaskId, ts, i + 1, marked)

\* markDependentTasksAsFailed together with the ids of the tasks it marks,
\* in the order it marks them; each mark is followed by one recursive call
RECURSIVE MarkTrace(_, _, _, _)
MarkTrace(failedTaskId, ts, i, marked) ==
    IF i > Len(ts) THEN [ts |-> ts, marked |-> marked]
    ELSE IF /\ failedTaskId \in Range(ts[i].dependencies)
            /\ ts[i].status = "pending"
         THEN LET m == [ts EXCEPT ![i].status = "failed",
                                  ![i].error = DependencyError(failedTaskId)]
                  deeper == MarkTrace(ts[i].id, m, 1, Append(marked, ts[i].id))
              IN  MarkTrace(failedTaskId, deeper.ts, i + 1, deeper.marked)
         ELSE MarkTrace(failedTaskId, ts, i + 1, marked)

\* the object each run*Agent stub returns, named by its first key
AgentResult(agentType) ==
    CASE agentType = "CodeGenAgent"       -> "filesCreated"
      [] agentType = "TestAgent"          -> "testsRun"
      [] agentType = "ReviewAgent"        -> "issues"
      [] agentType = "DeploymentAgent"    -> "deployed"
      [] agentType = "APIAgent"           -> "endpoints"
      [] agentType = "DatabaseAgent"      -> "tables"
      [] agentType = "SecurityAgent"      -> "vulnerabilities"
      [] agentType = "DocumentationAgent" -> "docsGenerated"
      [] agentType = "Plan"               -> "plan"
      [] agentType = "Explore"            -> "findings"
      [] OTHER                            -> "status"

MapGet(m, k) == IF k \in DOMAIN m THEN m[k] ELSE NoValue

MapSet(m, k, v) == [x \in (DOMAIN m) \cup {k} |-> IF x = k THEN v ELSE m[x]]

EmptyMap == [x \in {} |-> NoValue]

\* variant: the pairs are built from the last dependency to the first
DependencyResultsReversed(task, previousResults) ==
    [n \in DOMAIN task.dependencies |->
        LET depId == task.dependencies[Len(task.dependencies) + 1 - n] IN
        <<depId, MapGet(previousResults, depId)>>]

\* executeTask: the (id, result) pairs looked up for the task's dependencies
DependencyResults(task, previousResults) ==
    [n \in DOMAIN task.dependencies |->
        <<task.dependencies[n], MapGet(previousResults, task.dependencies[n])>>]

\* variant: the call is made for every task of the collection
NotifyEveryTask(n, i, event) == [k \in DOMAIN n |-> n[k] \cup {event}]

\* a call of notifyTaskStart, notifyTaskComplete or notifyTaskFailed for the
\* i-th task is recorded
Notify(n, i, event) == [n EXCEPT ![i] = @ \cup {event}]

\* outcomes a Lark notification can have: it cannot fail without a client
NotifyOutcomes == IF larkConfigured THEN BOOLEAN ELSE {TRUE}

(***************************************************************************)
(* Initial state: executeTaskDAG has been called on a fresh collection     *)
(***************************************************************************)
InitWith(inputs) ==
    /\ tasks \in inputs
    /\ results = EmptyMap
    /\ larkClient \in BOOLEAN
    /\ larkConfigured \in {c \in BOOLEAN : c => larkClient}
    /\ execOk \in [DOMAIN tasks -> BOOLEAN]
    /\ main = "loop"
    /\ pc = [i \in DOMAIN tasks |-> "idle"]
    /\ round = 0
    /\ waveOf = [i \in DOMAIN tasks |-> 0]
    /\ invoked = [i \in DOMAIN tasks |-> 0]
    /\ execInput = [i \in DOMAIN tasks |-> <<>>]
    /\ caller = "awaitDAG"
    /\ finalReport = FALSE
    /\ notified = [i \in DOMAIN tasks |-> {}]
    /\ startStatus = [i \in DOMAIN tasks |-> tasks[i].status]

\* the collections the task decomposer and every other producer of the
\* repository build: every task pending
Init == InitWith(InputGraphs)

\* the collection g handed over with the tasks at the positions R running
WithRunning(g, R) ==
    [i \in DOMAIN g |->
        IF i \in R THEN [g[i] EXCEPT !.status = "running"] ELSE g[i]]

\* executeTaskDAG called directly with a collection in which one task may
\* already be running
InitAnyStatus ==
    InitWith(UNION {{WithRunning(g, R) :
                        R \in {{}} \cup {{i} : i \in DOMAIN g}} :
                       g \in InputGraphs})

(***************************************************************************)
(* executeTaskDAG: one evaluation of the while loop up to its await        *)
(***************************************************************************)
\* variant: the catch block records the error but leaves the status alone
CaughtKeepsStatus(ts, i, message) == [ts EXCEPT ![i].error = message]

\* variant: the catch block marks the dependents before it notifies
CaughtPropagatesFirst(ts, i, message) ==
    markDependentTasksAsFailed(
        ts[i].id, [ts EXCEPT ![i].status = "failed", ![i].error = message])

\* variant: the catch block also empties the dependencies of the task
CaughtClearsDeps(ts, i, message) ==
    [ts EXCEPT ![i].status = "failed", ![i].error = message,
               ![i].dependencies = <<>>]

\* variant: the catch block records the error and puts the task back in line
CaughtRetries(ts, i, message) ==
    [ts EXCEPT ![i].status = "pending", ![i].error = message]

\* the catch block up to `await this.notifyTaskFailed(task, error)`
Caught(ts, i, message) ==
    [ts EXCEPT ![i].status = "failed", ![i].error = message]

WhileLoop ==
    /\ main = "loop"
    /\ LET ready == ReadyTasks(tasks) IN
       IF ~SomeActive(tasks)
       THEN /\ main' = "returned"
            /\ UNCHANGED <<tasks, pc, round, waveOf, notified>>
       ELSE IF ready = {}
       THEN /\ main' = IF SomeRunning(tasks) THEN "loop" ELSE "returned"
            /\ UNCHANGED <<tasks, pc, round, waveOf, notified>>
       ELSE /\ tasks' = [i \in DOMAIN tasks |->
                           IF i \in ready
                           THEN [tasks[i] EXCEPT !.status = "running"]
                           ELSE tasks[i]]
            /\ pc' = [i \in DOMAIN tasks |->
                        IF i \in ready THEN "notifyTaskStart" ELSE pc[i]]
            /\ round' = round + 1
            /\ waveOf' = [i \in DOMAIN tasks |->
                            IF i \in ready THEN round + 1 ELSE waveOf[i]]
            /\ notified' = [i \in DOMAIN tasks |->
                              IF i \in ready
                              THEN notified[i] \cup {"started"}
                              ELSE notified[i]]
            /\ main' = "awaiting"
    /\ UNCHANGED <<results, larkConfigured, execOk, invoked, execInput>>
    /\ UNCHANGED <<callerVars, startStatus, larkClient>>

\* await this.notifyTaskStart(task) settles; on success executeTask is called
NotifyTaskStartSettles(i) ==
    /\ pc[i] = "notifyTaskStart"
    /\ \E ok \in NotifyOutcomes :
         IF ok
         THEN /\ pc' = [pc EXCEPT ![i] = "executeTask"]
              /\ invoked' = [invoked EXCEPT ![i] = @ + 1]
              /\ execInput' = [execInput EXCEPT
                                  ![i] = DependencyResults(tasks[i], results)]
              /\ UNCHANGED <<tasks, notified>>
         ELSE /\ tasks' = Caught(tasks, i, NotifierError)
              /\ pc' = [pc EXCEPT ![i] = "notifyTaskFailed"]
              /\ notified' = Notify(notified, i, "failed")
              /\ UNCHANGED <<invoked, execInput>>
    /\ UNCHANGED <<results, larkConfigured, execOk, main, round, waveOf>>
    /\ UNCHANGED <<callerVars, startStatus, larkClient>>

\* await this.executeTask(task, results) settles
ExecuteTaskSettles(i) ==
    /\ pc[i] = "executeTask"
    /\ IF execOk[i]
       THEN LET result == AgentResult(tasks[i].agentType) IN
            /\ tasks' = [tasks EXCEPT ![i].status = "completed",
                                      ![i].result = result]
            /\ results' = MapSet(results, tasks[i].id, result)
            /\ pc' = [pc EXCEPT ![i] = "notifyTaskComplete"]
            /\ notified' = Notify(notified, i, "completed")
       ELSE /\ tasks' = Caught(tasks, i, ExecutorError)
            /\ pc' = [pc EXCEPT ![i] = "notifyTaskFailed"]
            /\ notified' = Notify(notified, i, "failed")
            /\ UNCHANGED results
    /\ UNCHANGED <<larkConfigured, execOk, main, round, waveOf, invoked,
                   execInput>>
    /\ UNCHANGED <<callerVars, startStatus, larkClient>>

\* await this.notifyTaskComplete(task) settles
NotifyTaskCompleteSettles(i) ==
    /\ pc[i] = "notifyTaskComplete"
    /\ \E ok \in NotifyOutcomes :
         IF ok
         THEN /\ pc' = [pc EXCEPT ![i] = "resolved"]
              /\ UNCHANGED <<tasks, notified>>
         ELSE /\ tasks' = Caught(tasks, i, NotifierError)
              /\ pc' = [pc EXCEPT ![i] = "notifyTaskFailed"]
              /\ notified' = Notify(notified, i, "failed")
    /\ UNCHANGED <<results, larkConfigured, execOk, main, round, waveOf,
                   invoked, execInput>>
    /\ UNCHANGED <<callerVars, startStatus, larkClient>>

\* await this.notifyTaskFailed(task, error) settles inside the catch block;
\* a rejection leaves the callback, and Promise.all rejects with it
NotifyTaskFailedSettles(i) ==
    /\ pc[i] = "notifyTaskFailed"
    /\ \E ok \in NotifyOutcomes :
         IF ok
         THEN /\ tasks' = markDependentTasksAsFailed(tasks[i].id, tasks)
              /\ pc' = [pc EXCEPT ![i] = "resolved"]
              /\ UNCHANGED main
         ELSE /\ pc' = [pc EXCEPT ![i] = "rejected"]
              /\ main' = IF main = "awaiting" THEN "thrown" ELSE main
              /\ UNCHANGED tasks
    /\ UNCHANGED <<results, larkConfigured, execOk, round, waveOf, invoked,
                   execInput, notified>>
    /\ UNCHANGED <<callerVars, startStatus, larkClient>>

\* await Promise.all(...) resolves: every callback of the wave has resolved
InFlight(i) ==
    pc[i] \in {"notifyTaskStart", "executeTask", "notifyTaskComplete",
               "notifyTaskFailed"}

\* variant: the loop resumes as soon as one callback of the wave has resolved
PromiseRaceResolves ==
    /\ main = "awaiting"
    /\ \E i \in Idx : waveOf[i] = round /\ pc[i] = "resolved"
    /\ main' = "loop"
    /\ UNCHANGED <<tasks, results, larkConfigured, execOk, pc, round, waveOf,
                   invoked, execInput, notified>>
    /\ UNCHANGED <<callerVars, startStatus, larkClient>>

PromiseAllResolves ==
    /\ main = "awaiting"
    /\ \A i \in Idx : waveOf[i] = round => pc[i] = "resolved"
    /\ main' = "loop"
    /\ UNCHANGED <<tasks, results, larkConfigured, execOk, pc, round, waveOf,
                   invoked, execInput, notified>>
    /\ UNCHANGED <<callerVars, startStatus, larkClient>>

\* outcomes of a reportProgress call of executeMiyabiTask: the progress card
\* is sent, and can fail, only with a Lark client and a chat id
ReportOutcomes == IF larkConfigured THEN BOOLEAN ELSE {TRUE}

\* `await coordinator.executeTaskDAG(taskSteps)` has returned:
\* reportProgress(..., 80, ...) is called
MiyabiTaskContinues ==
    /\ caller = "awaitDAG"
    /\ main = "returned"
    /\ caller' = "reportProgress80"
    /\ UNCHANGED <<finalReport, runVars>>

\* the report at 80 settles; runQualityChecks passes and
\* reportProgress(..., 90, ...) is called
MiyabiReport80Settles ==
    /\ caller = "reportProgress80"
    /\ \E ok \in ReportOutcomes :
          caller' = IF ok THEN "reportProgress90" ELSE "reportFailure"
    /\ UNCHANGED <<finalReport, runVars>>

\* the report at 90 settles; createDeliverable returns and the final report
\* reportProgress(..., 100, 'all tasks completed successfully') is issued
MiyabiReport90Settles ==
    /\ caller = "reportProgress90"
    /\ \E ok \in ReportOutcomes :
          IF ok
          THEN /\ caller' = "reportProgress100"
               /\ finalReport' = TRUE
          ELSE /\ caller' = "reportFailure"
               /\ UNCHANGED finalReport
    /\ UNCHANGED runVars

\* the report at 100 settles; `if (larkClient)` createLarkReport is called,
\* otherwise the function returns success: true
MiyabiReport100Settles ==
    /\ caller = "reportProgress100"
    /\ \E ok \in ReportOutcomes :
          caller' = IF ~ok THEN "reportFailure"
                    ELSE IF larkClient THEN "createLarkReport"
                    ELSE "success"
    /\ UNCHANGED <<finalReport, runVars>>

\* larkClient.createDocument of createLarkReport settles; on success the
\* final message is sent with larkClient.sendMessage
MiyabiCreateLarkReportSettles ==
    /\ caller = "createLarkReport"
    /\ \E ok \in BOOLEAN :
          caller' = IF ok THEN "sendMessage" ELSE "reportFailure"
    /\ UNCHANGED <<finalReport, runVars>>

\* the final message settles; on success the function returns success: true
MiyabiSendMessageSettles ==
    /\ caller = "sendMessage"
    /\ \E ok \in BOOLEAN :
          caller' = IF ok THEN "success" ELSE "reportFailure"
    /\ UNCHANGED <<finalReport, runVars>>

\* executeTaskDAG has thrown: the catch block of executeMiyabiTask calls
\* reportProgress with the failure
MiyabiTaskCatches ==
    /\ caller = "awaitDAG"
    /\ main = "thrown"
    /\ caller' = "reportFailure"
    /\ UNCHANGED <<finalReport, runVars>>

\* the failure report of the catch block settles and the error is rethrown
\* (a rejected failure report makes the function throw as well)
MiyabiReportFailureSettles ==
    /\ caller = "reportFailure"
    /\ caller' = "threw"
    /\ UNCHANGED <<finalReport, runVars>>

Next ==
    \/ WhileLoop
    \/ PromiseAllResolves
    \/ \E i \in Idx : NotifyTaskStartSettles(i)
    \/ \E i \in Idx : ExecuteTaskSettles(i)
    \/ \E i \in Idx : NotifyTaskCompleteSettles(i)
    \/ \E i \in Idx : NotifyTaskFailedSettles(i)
    \/ MiyabiTaskContinues
    \/ MiyabiReport80Settles
    \/ MiyabiReport90Settles
    \/ MiyabiReport100Settles
    \/ MiyabiCreateLarkReportSettles
    \/ MiyabiSendMessageSettles
    \/ MiyabiTaskCatches
    \/ MiyabiReportFailureSettles

Spec == Init /\ [][Next]_vars

SpecAnyStatus == InitAnyStatus /\ [][Next]_vars


(***************************************************************************)
(* The same machine with the scheduling the event loop guarantees: every   *)
(* pending await settles and every runnable continuation is run.           *)
(***************************************************************************)
Fairness ==
    /\ WF_vars(WhileLoop)
    /\ WF_vars(PromiseAllResolves)
    /\ WF_vars(MiyabiTaskContinues)
    /\ WF_vars(MiyabiReport80Settles)
    /\ WF_vars(MiyabiReport90Settles)
    /\ WF_vars(MiyabiReport100Settles)
    /\ WF_vars(MiyabiCreateLarkReportSettles)
    /\ WF_vars(MiyabiSendMessageSettles)
    /\ WF_vars(MiyabiTaskCatches)
    /\ WF_vars(MiyabiReportFailureSettles)
    /\ \A i \in 1..Len(IdOrder) :
         /\ WF_vars(i \in Idx /\ NotifyTaskStartSettles(i))
         /\ WF_vars(i \in Idx /\ ExecuteTaskSettles(i))
         /\ WF_vars(i \in Idx /\ NotifyTaskCompleteSettles(i))
         /\ WF_vars(i \in Idx /\ NotifyTaskFailedSettles(i))

FairSpec == Init /\ [][Next]_vars /\ Fairness

(***************************************************************************)
(* Vocabulary of the properties                                            *)
(***************************************************************************)
Ids(ts) == {ts[i].id : i \in DOMAIN ts}

DepIds(ts, i) == Range(ts[i].dependencies)

\* indices of the tasks that task i depends on, directly or through a chain
RECURSIVE Closure(_, _)
Closure(ts, S) ==
    LET more == S \cup {k \in DOMAIN ts :
                          \E j \in S : ts[k].id \in DepIds(ts, j)}
    IN  IF more = S THEN S ELSE Closure(ts, more)

DirectDeps(ts, i) == {k \in DOMAIN ts : ts[k].id \in DepIds(ts, i)}

TransitiveDeps(ts, i) == Closure(ts, DirectDeps(ts, i))

Acyclic(ts) == \A i \in DOMAIN ts : i \notin TransitiveDeps(ts, i)

NoDangling(ts) == \A i \in DOMAIN ts : DepIds(ts, i) \subseteq Ids(ts)

ValidGraph(ts) == Acyclic(ts) /\ NoDangling(ts)

Terminal(st) == st \in {"completed", "failed"}

\* the promise of executeTaskDAG has settled and no callback is in flight
Settled == main \in {"returned", "thrown"} /\ \A i \in Idx : ~InFlight(i)

\* outcome of the run in which no notification fails: the tasks whose
\* executor succeeds after all their dependencies completed, and the tasks
\* that fail themselves or through a dependency
RECURSIVE RefCompleted(_, _, _)
RefCompleted(ts, ok, C) ==
    LET more == C \cup {i \in DOMAIN ts :
                          /\ ok[i]
                          /\ \A d \in DepIds(ts, i) :
                               \E k \in C : ts[k].id = d}
    IN  IF more = C THEN C ELSE RefCompleted(ts, ok, more)

RefDispatched(ts, ok) ==
    {i \in DOMAIN ts : \A d \in DepIds(ts, i) :
                          \E k \in RefCompleted(ts, ok, {}) : ts[k].id = d}

RECURSIVE RefFailed(_, _, _)
RefFailed(ts, ok, F) ==
    LET more == F \cup {i \in DOMAIN ts :
                          \/ i \in RefDispatched(ts, ok) /\ ~ok[i]
                          \/ \E k \in F : ts[k].id \in DepIds(ts, i)}
    IN  IF more = F THEN F ELSE RefFailed(ts, ok, more)

RefStatus(ts, ok, i) ==
    IF i \in RefCompleted(ts, ok, {}) THEN "completed"
    ELSE IF i \in RefFailed(ts, ok, {}) THEN "failed"
    ELSE "pending"


(***************************************************************************)
(* Properties                                                              *)
(***************************************************************************)
StatusOfId(ts, id) ==
    IF \E k \in DOMAIN ts : ts[k].id = id
    THEN ts[CHOOSE k \in DOMAIN ts : ts[k].id = id].status
    ELSE "absent"

\* C1: no premature dispatch. Whenever a step changes a task's status to
\* running, every id of its dependencies names a task of the collection that
\* is completed in the state the step starts from (and still after it).
C1_NoPrematureDispatch ==
    [][\A i \in Idx :
          (tasks[i].status # "running" /\ tasks'[i].status = "running")
          => \A d \in DepIds(tasks, i) :
                /\ StatusOfId(tasks, d) = "completed"
                /\ StatusOfId(tasks', d) = "completed"]_vars

C1_Witness ==
    \E i \in Idx : /\ tasks[i].status = "running"
                   /\ Len(tasks[i].dependencies) = 2
                   /\ round >= 2

\* C2: notifier failures never change a task's status. When the run is over,
\* every task has the status it has in the run without notifier failures
\* under the same executor outcomes, and the executor of every task that run
\* dispatches has been invoked.
C2_NotifierNeverChangesStatus ==
    Settled =>
       \A i \in Idx :
          /\ tasks[i].status = RefStatus(tasks, execOk, i)
          /\ i \in RefDispatched(tasks, execOk) => invoked[i] = 1

\* C3: notifier failures never abort the run. executeTaskDAG never throws,
\* and a task that failed never finishes its callback without having its
\* dependents marked.
C3_NotifierNeverAborts ==
    /\ main # "thrown"
    /\ \A i \in Idx : pc[i] # "rejected"

\* C4: exactly-once terminal transition. A completed task stays completed, a
\* failed task stays failed, and a result or an error that has been set is
\* never changed afterwards.
C4_ExactlyOnceTerminal ==
    [][\A i \in Idx :
          /\ Terminal(tasks[i].status) => tasks'[i].status = tasks[i].status
          /\ tasks[i].result # NoValue => tasks'[i].result = tasks[i].result
          /\ tasks[i].error # NoError => tasks'[i].error = tasks[i].error
          /\ (tasks[i].result # NoValue \/ tasks[i].error # NoError)
                => (tasks'[i].result = tasks[i].result
                    /\ tasks'[i].error = tasks[i].error)]_vars

\* C5: propagation completeness. When the run is over, every task that
\* depends directly or through a chain on a failed task is failed and its
\* executor was never invoked.
C5_PropagationComplete ==
    Settled =>
       \A a, b \in Idx :
          (tasks[a].status = "failed" /\ a \in TransitiveDeps(tasks, b))
          => (tasks[b].status = "failed" /\ invoked[b] = 0)

\* C6: result/error invariant. A task has a result only when completed and an
\* error only when failed; a terminal task has exactly one of the two and a
\* pending or running task has neither.
C6_ResultErrorInvariant ==
    \A i \in Idx :
       /\ tasks[i].result # NoValue => tasks[i].status = "completed"
       /\ tasks[i].error # NoError => tasks[i].status = "failed"
       /\ Terminal(tasks[i].status)
             => (tasks[i].result # NoValue) # (tasks[i].error # NoError)
       /\ ~Terminal(tasks[i].status)
             => (tasks[i].result = NoValue /\ tasks[i].error = NoError)

\* C7: run result mapping. The returned map has an entry for a task id
\* exactly when that task's final status is completed, and the entry is the
\* task's result.
C7_ResultMapping ==
    main = "returned" =>
       \A i \in Idx :
          /\ (tasks[i].id \in DOMAIN results) <=> (tasks[i].status = "completed")
          /\ tasks[i].id \in DOMAIN results
                => results[tasks[i].id] = tasks[i].result

\* C8: termination. On an acyclic collection without dangling ids whose tasks
\* all start pending, when every executor and notifier call settles, the call
\* of executeTaskDAG eventually returns.
C8_Termination ==
    ValidGraph(tasks) => <>(main = "returned")

\* C9: completion of a valid graph. When executeTaskDAG returns on an acyclic
\* collection without dangling ids, every task is completed or failed.
C9_CompletionOfValidGraph ==
    (main = "returned" /\ ValidGraph(tasks))
    => \A i \in Idx : Terminal(tasks[i].status)

C9_Witness ==
    /\ main = "returned"
    /\ ValidGraph(tasks)
    /\ \E i, j \in Idx :
          /\ i # j
          /\ tasks[i].error = ExecutorError
          /\ tasks[j].status = "failed"
          /\ tasks[j].error \notin {ExecutorError, NotifierError}
          /\ i \in TransitiveDeps(tasks, j) \ DirectDeps(tasks, j)

\* the executor call of task i has failed
ExecutorFailed(i) ==
    /\ invoked[i] > 0
    /\ ~execOk[i]
    /\ pc[i] # "executeTask"

\* C10: executor failure is isolated. Once a task's executor has failed the
\* run does not throw and the task is failed with the executor's error; when
\* the run is over every task dispatched in the same wave has reached its own
\* outcome and every task that does not depend on a failed task has been
\* dispatched.
C10_ExecutorFailureIsolated ==
    \A i \in Idx :
       ExecutorFailed(i) =>
          /\ main # "thrown"
          /\ tasks[i].status = "failed"
          /\ tasks[i].error = ExecutorError
          /\ Settled =>
                \A j \in Idx :
                   /\ waveOf[j] = waveOf[i] => Terminal(tasks[j].status)
                   /\ j \in RefDispatched(tasks, execOk) => waveOf[j] > 0


\* the ready set as the specification words it
SpecReady(ts) ==
    {i \in DOMAIN ts :
        /\ ts[i].status = "pending"
        /\ \A d \in DepIds(ts, i) : StatusOfId(ts, d) = "completed"}

OnCycle(ts, i) == i \in TransitiveDeps(ts, i)

HasDangling(ts, i) == ~(DepIds(ts, i) \subseteq Ids(ts))

\* C11: wave barrier. Whenever the coordinator is about to compute a ready
\* set, no callback of an earlier wave is still in flight, no task is running
\* and every task dispatched so far is completed or failed.
C11_WaveBarrier ==
    main = "loop" =>
       \A i \in Idx :
          /\ ~InFlight(i)
          /\ tasks[i].status # "running"
          /\ waveOf[i] > 0 => Terminal(tasks[i].status)

\* a task became ready in the middle of a wave of two and was dispatched only
\* in the next round
C11_Witness ==
    /\ main = "loop"
    /\ round = 1
    /\ Cardinality({i \in Idx : waveOf[i] = 1}) >= 2
    /\ \E i \in Idx : /\ tasks[i].status = "pending"
                      /\ tasks[i].dependencies # <<>>
                      /\ \A d \in DepIds(tasks, i) :
                            StatusOfId(tasks, d) = "completed"

\* C12: stall on a cycle. When every task of the collection is on a
\* dependency cycle, nothing is ever dispatched: no executor and no notifier
\* call is made, every task stays pending without result or error, the map
\* stays empty, and executeTaskDAG returns normally.
C12_StallOnCycle ==
    (\A i \in Idx : OnCycle(tasks, i)) =>
       /\ [](/\ main \in {"loop", "returned"}
             /\ round = 0
             /\ DOMAIN results = {}
             /\ \A i \in Idx : /\ tasks[i].status = "pending"
                               /\ tasks[i].result = NoValue
                               /\ tasks[i].error = NoError
                               /\ pc[i] = "idle"
                               /\ invoked[i] = 0)
       /\ <>(main = "returned")

C12_Witness ==
    /\ main = "returned"
    /\ Len(tasks) = 3
    /\ \A i \in Idx : OnCycle(tasks, i)
    /\ \E i \in Idx : tasks[i].id \in DepIds(tasks, i)
    /\ \E i \in Idx : tasks[i].id \notin DepIds(tasks, i)

\* C13: dangling dependency. A task with a dependency id that is not in the
\* collection is never dispatched and its executor is never invoked; when
\* executeTaskDAG returns it is still pending unless one of its dependencies
\* is failed; and the call does not wait for it: it returns normally.
C13_DanglingDependency ==
    /\ [](\A i \in Idx :
            HasDangling(tasks, i) =>
               /\ waveOf[i] = 0
               /\ invoked[i] = 0
               /\ pc[i] = "idle"
               /\ tasks[i].status \in {"pending", "failed"}
               /\ (main = "returned"
                   /\ \A d \in DepIds(tasks, i) : StatusOfId(tasks, d) # "failed")
                     => tasks[i].status = "pending")
    /\ (\E i \in Idx : HasDangling(tasks, i))
          => <>(main = "returned")


\* the tasks whose status a step changes to running
Dispatched == {i \in Idx : tasks[i].status # "running"
                           /\ tasks'[i].status = "running"}

C15_ReadySetDefinition ==
    /\ [](/\ ReadyTasks(tasks) = SpecReady(tasks)
          /\ \A i \in Idx :
                /\ (tasks[i].status = "pending" /\ tasks[i].dependencies = <<>>)
                      => i \in ReadyTasks(tasks)
                /\ tasks[i].status # "pending" => i \notin ReadyTasks(tasks))
    /\ [][main = "loop" => Dispatched = SpecReady(tasks)]_vars

C15_Witness ==
    /\ main = "awaiting"
    /\ round >= 2
    /\ \E i \in Idx : tasks[i].status = "running" /\ tasks[i].dependencies # <<>>
    /\ \E i \in Idx : tasks[i].status = "failed"
    /\ \E i \in Idx : tasks[i].status = "pending"

\* C16: independent tasks run concurrently. The step that dispatches a wave
\* sets every task of the ready set to running at once, before any executor
\* call of the wave is made and whatever the size of the ready set.
C16_WaveDispatchedTogether ==
    [][Dispatched # {} =>
          /\ Dispatched = SpecReady(tasks)
          /\ \A j \in Dispatched : /\ pc'[j] = "notifyTaskStart"
                                   /\ waveOf'[j] = round'
          /\ invoked' = invoked
          /\ \A j \in Idx : waveOf'[j] = round' => invoked[j] = 0]_vars

\* three tasks of one wave are inside their executor calls at the same time
C16_Witness ==
    \E w \in 1..Len(tasks) :
       /\ Cardinality({i \in Idx : waveOf[i] = w}) = 3
       /\ \A i \in Idx : waveOf[i] = w =>
             (tasks[i].status = "running" /\ pc[i] = "executeTask")


SameGraph(ts, g) ==
    /\ Len(ts) = Len(g)
    /\ \A i \in DOMAIN ts : /\ ts[i].id = g[i].id
                            /\ ts[i].dependencies = g[i].dependencies

MaxOf(S) == IF S = {} THEN 0 ELSE CHOOSE m \in S : \A n \in S : n <= m

\* no notification has failed so far: a failed notification always leaves an
\* error that the executor did not raise, or a rejected callback
NotifierSucceeded ==
    \A i \in Idx : tasks[i].error # NotifierError /\ pc[i] # "rejected"

\* C17: wave structure when everything succeeds. On an acyclic collection
\* without dangling ids, when every executor and every notification
\* succeeds, the call returns with every task completed and each task was
\* dispatched in wave 1 + the largest wave of its dependencies (wave 1 without
\* dependencies); the diamond gives a in wave 1, b and c in wave 2, d in 3.
C17_WaveStructure ==
    (/\ main = "returned"
     /\ ValidGraph(tasks)
     /\ \A i \in Idx : execOk[i]
     /\ NotifierSucceeded)
    => /\ \A i \in Idx :
             /\ tasks[i].status = "completed"
             /\ waveOf[i] = 1 + MaxOf({waveOf[k] : k \in DirectDeps(tasks, i)})
       /\ SameGraph(tasks, Diamond) => waveOf = <<1, 2, 2, 3>>

C17_Witness ==
    /\ main = "returned"
    /\ larkConfigured
    /\ SameGraph(tasks, Diamond)
    /\ \A i \in Idx : tasks[i].status = "completed"
    /\ waveOf = <<1, 2, 2, 3>>

\* C18: propagated error names the failed dependency. Whenever a step takes
\* a task from pending to failed (failure propagation), the task's error is
\* `Dependency X failed` for an X among its own dependencies, and X is failed
\* in the state the step leads to.
C18_PropagatedErrorNamesDependency ==
    [][\A i \in Idx :
          (tasks[i].status = "pending" /\ tasks'[i].status = "failed")
          => \E x \in DepIds(tasks, i) :
                /\ tasks'[i].error = DependencyError(x)
                /\ StatusOfId(tasks', x) = "failed"]_vars

\* Scenario 2: in the diamond a succeeds, b fails, c completes and d is failed
\* with the error naming b
C18_Witness ==
    /\ main = "returned"
    /\ SameGraph(tasks, Diamond)
    /\ tasks[1].status = "completed"
    /\ tasks[2].error = ExecutorError
    /\ tasks[3].status = "completed"
    /\ tasks[4].status = "failed"
    /\ tasks[4].error = DependencyError("b")

\* the step is the end of a catch block: markDependentTasksAsFailed(id of i)
Propagates(i) == pc[i] = "notifyTaskFailed" /\ pc'[i] = "resolved"

\* C19: propagator frame. An invocation of markDependentTasksAsFailed for the
\* failed task i changes only tasks that were pending and depend on i
\* directly or through a chain, and of those only status and error; every
\* running, completed or failed task keeps its status, result and error.
C19_PropagatorFrame ==
    [][\A i \in Idx :
          Propagates(i) =>
             \A j \in Idx :
                /\ tasks'[j] # tasks[j] =>
                      /\ tasks[j].status = "pending"
                      /\ i \in TransitiveDeps(tasks, j)
                      /\ tasks'[j] = [tasks[j] EXCEPT
                                         !.status = "failed",
                                         !.error = tasks'[j].error]
                /\ tasks[j].status # "pending" => tasks'[j] = tasks[j]]_vars

\* two tasks of one wave failed, both propagations ran, and their common
\* dependent carries the error of one of them
C19_Witness ==
    \E a, b, c \in Idx :
       /\ a # b
       /\ waveOf[a] = waveOf[b] /\ waveOf[a] > 0
       /\ tasks[a].status = "failed" /\ pc[a] = "resolved"
       /\ tasks[b].status = "failed" /\ pc[b] = "resolved"
       /\ {tasks[a].id, tasks[b].id} \subseteq DepIds(tasks, c)
       /\ tasks[c].error = DependencyError(tasks[b].id)
       /\ a < b

\* C20: propagation reaches its fixed point before the next round. Whenever
\* the coordinator is about to compute a ready set, no pending task has a
\* dependency that is failed.
C20_PropagationFixedPoint ==
    main = "loop" =>
       \A i \in Idx :
          tasks[i].status = "pending"
          => \A d \in DepIds(tasks, i) : StatusOfId(tasks, d) # "failed"

\* a chain was collapsed by one propagation and the loop is about to resolve
\* the next ready set
C20_Witness ==
    /\ main = "loop"
    /\ \E i, j \in Idx :
          /\ tasks[i].status = "failed" /\ waveOf[i] = 0
          /\ tasks[j].status = "failed" /\ waveOf[j] = 0
          /\ tasks[j].error = DependencyError(tasks[i].id)

\* C21: per-task state machine. Every status change of a task is a dispatch
\* (pending to running), the success of its executor (running to completed),
\* the failure of its executor (running to failed) or a failure propagation
\* (pending to failed with the error of a dependency); no task returns to
\* pending or running and no task leaves completed or failed.
C21_TaskStateMachine ==
    [][\A i \in Idx :
          tasks'[i].status # tasks[i].status =>
             \/ /\ tasks[i].status = "pending"
                /\ tasks'[i].status = "running"
                /\ i \in Dispatched
             \/ /\ tasks[i].status = "running"
                /\ tasks'[i].status = "completed"
                /\ pc[i] = "executeTask" /\ execOk[i]
             \/ /\ tasks[i].status = "running"
                /\ tasks'[i].status = "failed"
                /\ pc[i] = "executeTask" /\ ~execOk[i]
             \/ /\ tasks[i].status = "pending"
                /\ tasks'[i].status = "failed"
                /\ \E d \in DepIds(tasks, i) :
                      tasks'[i].error = DependencyError(d)]_vars

\* C22: no retry. The executor of a task is invoked at most once in a run,
\* and a task that is dispatched is pending, was never dispatched before, has
\* no error and its executor was never invoked: a task whose executor failed
\* and a task failed by propagation are never dispatched again.
C22_NoRetry ==
    /\ [](\A i \in Idx : invoked[i] <= 1)
    /\ [][\A i \in Dispatched :
             /\ tasks[i].status = "pending"
             /\ tasks[i].error = NoError
             /\ waveOf[i] = 0
             /\ invoked[i] = 0]_vars

\* the loop came round again after an executor failure in the second wave
\* and a propagation, and neither failed task was dispatched again
C22_Witness ==
    /\ main = "returned"
    /\ \E i, j, k \in Idx :
          /\ tasks[i].error = ExecutorError /\ invoked[i] = 1
          /\ waveOf[i] = 2
          /\ tasks[j].error = DependencyError(tasks[i].id)
          /\ invoked[j] = 0 /\ waveOf[j] = 0
          /\ tasks[k].status = "completed" /\ waveOf[k] = 1

\* C23: executor input. Whenever the executor of a task has been invoked it
\* received one (dependencyId, result) pair per entry of the task's
\* dependencies, in their order, and the result of each pair is the value the
\* executor of that dependency returned, which is the entry of the results
\* map for it; no result is missing.
C23_ExecutorInput ==
    \A i \in Idx :
       invoked[i] > 0 =>
          /\ Len(execInput[i]) = Len(tasks[i].dependencies)
          /\ \A n \in 1..Len(tasks[i].dependencies) :
                LET depId == tasks[i].dependencies[n] IN
                /\ execInput[i][n][1] = depId
                /\ execInput[i][n][2] # NoValue
                /\ depId \in DOMAIN results
                /\ execInput[i][n][2] = results[depId]
                /\ \E j \in Idx :
                      /\ tasks[j].id = depId
                      /\ invoked[j] = 1 /\ execOk[j]
                      /\ execInput[i][n][2] = AgentResult(tasks[j].agentType)

\* the executor of a task whose dependencies are listed as c, b was invoked
\* with the result of c first and the result of b second
C23_Witness ==
    \E i \in Idx :
       /\ invoked[i] = 1
       /\ tasks[i].dependencies = <<"c", "b">>
       /\ execInput[i] = <<<<"c", AgentResult(AgentTypeOf["c"])>>,
                           <<"b", AgentResult(AgentTypeOf["b"])>>>>
       /\ AgentResult(AgentTypeOf["c"]) # AgentResult(AgentTypeOf["b"])

\* the fields of a task that a run must leave alone
FrameOf(t) == <<t.id, t.name, t.description, t.agentType, t.dependencies>>

\* C25: frame of a run. No step of executeTaskDAG or of the propagator
\* changes the membership or the order of the collection or the id, name,
\* description, agentType or dependencies of a task, so they are at the end
\* of the run what they were at its start; the step that invokes an executor
\* and the steps in which a task-started or task-completed notification
\* succeeds change no field of any task.
C25_RunFrame ==
    [][/\ DOMAIN tasks' = DOMAIN tasks
       /\ \A i \in Idx : FrameOf(tasks'[i]) = FrameOf(tasks[i])
       /\ (\E i \in Idx : invoked'[i] # invoked[i]) => tasks' = tasks
       /\ (\E i \in Idx : /\ pc[i] = "notifyTaskComplete"
                          /\ pc'[i] = "resolved") => tasks' = tasks]_vars

\* a run with dependencies ended with a completed task, a task failed by its
\* executor and a task failed by propagation, its dependencies still listed
C25_Witness ==
    /\ main = "returned"
    /\ \E i, j, k \in Idx :
          /\ tasks[i].status = "completed"
          /\ tasks[i].name = <<"name", tasks[i].id>>
          /\ tasks[j].error = ExecutorError
          /\ tasks[j].dependencies = <<tasks[i].id>>
          /\ tasks[k].error = DependencyError(tasks[j].id)
          /\ tasks[k].dependencies = <<tasks[i].id, tasks[j].id>>

\* C26: order of steps for one dispatched task. While the task-started
\* notification is out the task is running and its executor has not been
\* invoked; while the executor runs the task is running; while the
\* task-completed notification is out the task is completed and its result is
\* stored in the task and in the results map; while the task-failed
\* notification is out the task is failed and its error is stored (the
\* executor's error after an executor failure); and no task is marked failed
\* for the dependency T before the task-failed notification of T has settled.
C26_StepOrder ==
    \A i \in Idx :
       /\ pc[i] = "notifyTaskStart"
             => (tasks[i].status = "running" /\ invoked[i] = 0)
       /\ pc[i] = "executeTask"
             => (tasks[i].status = "running" /\ invoked[i] = 1)
       /\ pc[i] = "notifyTaskComplete"
             => /\ tasks[i].status = "completed"
                /\ invoked[i] = 1 /\ execOk[i]
                /\ tasks[i].result # NoValue
                /\ tasks[i].id \in DOMAIN results
                /\ results[tasks[i].id] = tasks[i].result
       /\ pc[i] = "notifyTaskFailed"
             => /\ tasks[i].status = "failed"
                /\ tasks[i].error # NoError
                /\ ExecutorFailed(i) => tasks[i].error = ExecutorError
       /\ pc[i] \in {"notifyTaskStart", "executeTask", "notifyTaskComplete",
                     "notifyTaskFailed"}
             => \A j \in Idx : tasks[j].error # DependencyError(tasks[i].id)

\* the executor of a task failed, its task-failed notification is out, and a
\* task that depends on it is still pending
C26_Witness ==
    \E i, j \in Idx :
       /\ pc[i] = "notifyTaskFailed"
       /\ tasks[i].status = "failed"
       /\ tasks[i].error = ExecutorError
       /\ tasks[i].id \in DepIds(tasks, j)
       /\ tasks[j].status = "pending"

\* C27: the aggregate outcome reported by the caller matches the collection.
\* executeMiyabiTask has sent the final 100% report, or has returned
\* success: true, only when every task of the run is completed.
C27_AggregateOutcome ==
    (finalReport \/ caller = "success")
    => \A i \in Idx : tasks[i].status = "completed"

\* no task that task i depends on, directly or through a chain, is failed
NoDependencyFailed(i) ==
    \A k \in TransitiveDeps(tasks, i) : tasks[k].status # "failed"

\* C28: failures do not spread to unrelated tasks. When executeTaskDAG
\* returns and no notification failed, a failed task is one whose own
\* executor failed or that depends, directly or through a chain, on a failed
\* task; a task whose executor ran and succeeded is completed, and on an
\* acyclic collection without dangling ids so is every task whose executor
\* succeeds and none of whose transitive dependencies failed.
C28_FailuresDoNotSpread ==
    (main = "returned" /\ NotifierSucceeded) =>
       \A i \in Idx :
          /\ tasks[i].status = "failed"
                => \/ (ExecutorFailed(i) /\ tasks[i].error = ExecutorError)
                   \/ ~NoDependencyFailed(i)
          /\ (invoked[i] = 1 /\ execOk[i]) => tasks[i].status = "completed"
          /\ (ValidGraph(tasks) /\ execOk[i] /\ NoDependencyFailed(i))
                => tasks[i].status = "completed"

\* an executor failed and the task that depends on it was failed, while an
\* unrelated task of the same wave completed
C28_Witness ==
    /\ main = "returned"
    /\ NotifierSucceeded
    /\ \E i, j, k \in Idx :
          /\ tasks[i].error = ExecutorError
          /\ tasks[j].status = "completed" /\ waveOf[j] = waveOf[i]
          /\ i \notin TransitiveDeps(tasks, j)
          /\ tasks[k].status = "failed"
          /\ {i, j} \subseteq DirectDeps(tasks, k)

\* C29: final statuses do not depend on interleaving. When executeTaskDAG
\* returns and no notification failed, the status of every task and the key
\* set of the returned map are the values of a function of the collection
\* and the executor outcomes alone, whatever order the tasks of a wave
\* started and settled in; the error of a task failed by propagation names
\* one of its failed dependencies, which one depending on that order.
C29_InterleavingIndependent ==
    (main = "returned" /\ NotifierSucceeded) =>
       /\ \A i \in Idx : tasks[i].status = RefStatus(tasks, execOk, i)
       /\ DOMAIN results = {tasks[i].id : i \in RefCompleted(tasks, execOk, {})}
       /\ \A i \in Idx :
             (tasks[i].status = "failed" /\ ~ExecutorFailed(i))
             => \E k \in DirectDeps(tasks, i) :
                   /\ tasks[k].status = "failed"
                   /\ tasks[i].error = DependencyError(tasks[k].id)

\* two tasks of one wave failed and the later of the two in the collection
\* settled first: their common dependent names it, not the earlier one
C29_Witness ==
    /\ main = "returned"
    /\ NotifierSucceeded
    /\ \E i, j, k \in Idx :
          /\ i < j
          /\ waveOf[i] = waveOf[j]
          /\ ExecutorFailed(i) /\ ExecutorFailed(j)
          /\ {i, j} \subseteq DirectDeps(tasks, k)
          /\ tasks[k].error = DependencyError(tasks[j].id)
          /\ RefStatus(tasks, execOk, k) = "failed"

\* C30: no mutation after the run has settled. Once the promise of
\* executeTaskDAG has resolved or rejected no executor call is in flight, no
\* task is running, and no later step changes the status, result or error of
\* a task or the results map.
C30_NoMutationAfterSettled ==
    /\ [](main \in {"returned", "thrown"}
             => \A i \in Idx : /\ pc[i] # "executeTask"
                               /\ tasks[i].status # "running")
    /\ [][(main \in {"returned", "thrown"})
             => (tasks' = tasks /\ results' = results)]_vars

\* C31: shape of a stalled result. When executeTaskDAG returns no task is
\* running, and every task that is still pending has a dependency that is
\* itself still pending or names no task of the collection; none of its
\* dependencies is failed or running.
C31_StalledShape ==
    main = "returned" =>
       \A i \in Idx :
          /\ tasks[i].status # "running"
          /\ tasks[i].status = "pending" =>
                /\ \E d \in DepIds(tasks, i) :
                      \/ d \notin Ids(tasks)
                      \/ StatusOfId(tasks, d) = "pending"
                /\ \A d \in DepIds(tasks, i) :
                      d \in Ids(tasks)
                      => StatusOfId(tasks, d) \in {"pending", "completed"}

\* a run returned with one task stalled on a dependency cycle and another on
\* an absent id, after a wave in which a task failed
C31_Witness ==
    /\ main = "returned"
    /\ \E i, j, k \in Idx :
          /\ tasks[i].status = "pending" /\ OnCycle(tasks, i)
          /\ ~HasDangling(tasks, i)
          /\ tasks[j].status = "pending" /\ HasDangling(tasks, j)
          /\ ~OnCycle(tasks, j)
          /\ tasks[k].status = "failed"

\* C32: at most one outcome event per task. No task has had both
\* notifyTaskComplete and notifyTaskFailed called for it, and when the run is
\* over every task for which notifyTaskComplete was called is completed.
C32_OneOutcomeEvent ==
    \A i \in Idx :
       /\ ~({"completed", "failed"} \subseteq notified[i])
       /\ (Settled /\ "completed" \in notified[i])
             => tasks[i].status = "completed"

\* the task was marked failed by the failure propagator
FailedByPropagation(i) ==
    /\ tasks[i].status = "failed"
    /\ \E d \in DepIds(tasks, i) : tasks[i].error = DependencyError(d)

\* C33: propagated failures are silent. A notify function has been called
\* only for tasks that were dispatched, every dispatched task had its
\* task-started call, and a task marked failed by the failure propagator has
\* had no notify call at all.
C33_PropagatedFailuresSilent ==
    \A i \in Idx :
       /\ notified[i] # {} => waveOf[i] > 0
       /\ waveOf[i] > 0 => "started" \in notified[i]
       /\ FailedByPropagation(i) => notified[i] = {}

\* the run is over: a task failed and was notified as started and failed,
\* and its dependent was marked failed without any notify call
C33_Witness ==
    /\ main = "returned"
    /\ \E i, j \in Idx :
          /\ notified[i] = {"started", "failed"}
          /\ tasks[j].error = DependencyError(tasks[i].id)
          /\ tasks[j].status = "failed"
          /\ notified[j] = {}

\* C34: the failure propagator terminates on every graph. On every
\* collection a run reaches, cyclic and self-dependent ones included, an
\* invocation for any task id ends, marks no task twice, marks exactly the
\* tasks whose status it changes from pending to failed, makes one recursive
\* call per marked task and so at most one per task of the collection, and
\* yields the collection the coordinator's propagation step yields.
C34_PropagatorTerminates ==
    \A k \in Idx :
       LET r == MarkTrace(tasks[k].id, tasks, 1, <<>>) IN
       /\ r.ts = markDependentTasksAsFailed(tasks[k].id, tasks)
       /\ \A m, n \in DOMAIN r.marked :
             m # n => r.marked[m] # r.marked[n]
       /\ Len(r.marked) <= Len(tasks)
       /\ Range(r.marked) = {tasks[j].id : j \in {x \in Idx :
                                /\ tasks[x].status = "pending"
                                /\ r.ts[x].status = "failed"}}

\* a propagation has run over a dependency cycle with a self-dependency:
\* task j depends on the failed task i and on k, task k on j and on itself
C34_Witness ==
    \E i, j, k \in Idx :
       /\ pc[i] = "resolved" /\ tasks[i].error = ExecutorError
       /\ j # k
       /\ DepIds(tasks, j) = {tasks[i].id, tasks[k].id}
       /\ DepIds(tasks, k) = {tasks[j].id, tasks[k].id}
       /\ tasks[j].error = DependencyError(tasks[i].id)
       /\ tasks[k].error = DependencyError(tasks[j].id)

\* the loop is at the branch `readyTasks.length === 0` with a task running:
\* it sleeps 100 ms and evaluates the loop again
Polling ==
    /\ main = "loop"
    /\ SpecReady(tasks) = {}
    /\ \E i \in Idx : tasks[i].status = "running"

\* C35: the polling branch is dead when every task starts pending. For any
\* statuses the tasks are handed over with: when the loop polls, some task
\* was handed over already running; when all tasks started pending no task is
\* running whenever the loop is evaluated, so it never polls; and once the
\* loop polls nothing changes any more, so it polls for ever.
C35_PollingBranchDead ==
    /\ [](Polling => \E i \in Idx : /\ startStatus[i] = "running"
                                    /\ tasks[i].status = "running")
    /\ []((main = "loop" /\ \A i \in Idx : startStatus[i] = "pending")
             => \A i \in Idx : tasks[i].status # "running")
    /\ [][~Polling]_vars

\* a collection handed over with one task running: a wave was dispatched
\* and completed, and now the loop polls
C35_Witness ==
    /\ Polling
    /\ round >= 1
    /\ \E i, j \in Idx :
          /\ tasks[i].status = "completed"
          /\ startStatus[j] = "running"
          /\ tasks[j].status = "running" /\ pc[j] = "idle"

=============================================================================
